---- MODULE Spec2Model ----
(***************************************************************************)
(* Merkle membership circuits of zcash_proofs: the algebraic walker        *)
(* MerklePedersen (circuit/merkle.rs), the bit-hash walker JoinSplit with  *)
(* witness_bits and NoteValue (circuit/merkle_sha/mod.rs).                 *)
(*                                                                         *)
(* A synthesis is a sequential program writing to one constraint system.   *)
(* Each statement of synthesize that calls the constraint system is one    *)
(* action; pc is the position in the source.                               *)
(*                                                                         *)
(* Scaling.  The scalar field is a small prime field, a u64 has ValueBits  *)
(* bits, a [u8; 32] has NumBytes bytes (a byte keeps its 8 bits).          *)
(* Option<T> is a sequence: None == <<>>, Some(x) == <<x>>.                *)
(***************************************************************************)
EXTENDS Integers, Sequences, FiniteSets, TLC

VARIABLES
    prog,     \* which entry point runs: "MerklePedersen", "JoinSplit", "NoteValue", "witness_bits"
    circuit,  \* the circuit struct / the arguments of the call (owned optional witness data)
    cs,       \* the constraint system handed to synthesize
    pc,       \* position in the code of the entry point
    loc,      \* local variables of the running function
    result    \* outcome of the call: "running", "Ok", "Err", "panic"

vars == <<prog, circuit, cs, pc, loc, result>>

----------------------------------------------------------------------------
(* Bounds of the model *)

ValueBits == 3   \* bits of the scaled u64 of NoteValue
NumBytes == 1    \* bytes of the scaled [u8; 32]
MaxDepth == 2    \* longest auth path synthesized
MaxInputs == 2   \* most JoinSplit inputs given

----------------------------------------------------------------------------
(* Option<T> *)

None == <<>>
Some(x) == <<x>>
IsSome(o) == o # <<>>
Unwrap(o) == o[1]

----------------------------------------------------------------------------
(* The scalar field E::Fr, scaled: the least prime above 2^ValueBits, so   *)
(* that a (scaled) u64 never wraps in it, as 2^64 < r in BLS12-381.        *)

Pow2(n) == 2 ^ n

IsPrime(p) == p > 1 /\ \A d \in 2..(p - 1) : p % d # 0

FrModulus == CHOOSE p \in (Pow2(ValueBits) + 1)..(2 * Pow2(ValueBits)) :
                 IsPrime(p) /\ \A q \in (Pow2(ValueBits) + 1)..(p - 1) : ~IsPrime(q)

\* Fr::NUM_BITS: bits needed to write FrModulus - 1
FrNumBits == CHOOSE n \in 1..(ValueBits + 2) : Pow2(n - 1) < FrModulus /\ FrModulus <= Pow2(n)

\* Fr::CAPACITY
FrCapacity == FrNumBits - 1

FrAdd(a, b) == (a + b) % FrModulus
FrMul(a, b) == (a * b) % FrModulus

----------------------------------------------------------------------------
(* The constraint system (bellman ConstraintSystem): witnesses with an     *)
(* optional value, rank-1 constraints A * B = C over linear combinations,  *)
(* public inputs.  mode "eval" is a system that evaluates the value        *)
(* closures (TestConstraintSystem, the prover); mode "shape" never calls   *)
(* them (key generation).  left is the number of allocations the system    *)
(* still accepts before refusing one (Unlimited: it never refuses).        *)

Unlimited == 0 - 1

ONE == [k |-> "inputs", i |-> 1]

NewCS(mode) ==
    [mode |-> mode,
     inputs |-> <<[name |-> <<"ONE">>, value |-> Some(1)]>>,
     aux |-> <<>>,
     constraints |-> <<>>,
     left |-> Unlimited]

\* Result<T, SynthesisError> of a call that wrote to the constraint system
Ok(c, out) == [cs |-> c, err |-> "ok", out |-> out]
Fail(c, e) == [cs |-> c, err |-> e, out |-> None]

\* cs.alloc / cs.alloc_input: kind is "aux" or "inputs", value an Option<Fr>
CS_alloc(c, kind, name, value) ==
    IF c.left = 0 THEN Fail(c, "Refused")
    ELSE IF c.mode = "eval" /\ ~IsSome(value) THEN Fail(c, "AssignmentMissing")
    ELSE LET c1 == [c EXCEPT ![kind] = Append(@, [name |-> name,
                                                   value |-> IF c.mode = "eval" THEN value ELSE None]),
                             !.left = IF @ = Unlimited THEN @ ELSE @ - 1]
         IN  Ok(c1, [k |-> kind, i |-> Len(c1[kind])])

\* cs.enforce(name, a, b, c): registers a * b = c
CS_enforce(c, name, a, b, cc) ==
    [c EXCEPT !.constraints = Append(@, [kind |-> "r1cs", name |-> name, a |-> a, b |-> b, c |-> cc])]

Term(coeff, v) == [c |-> coeff % FrModulus, v |-> v]

ValueOf(c, v) == Unwrap(c[v.k][v.i].value)

RECURSIVE EvalLC(_, _)
EvalLC(c, lc) ==
    IF lc = <<>> THEN 0
    ELSE FrAdd(FrMul(Head(lc).c, ValueOf(c, Head(lc).v)), EvalLC(c, Tail(lc)))

----------------------------------------------------------------------------
(* Bit strings *)

RECURSIVE BitsToNat(_)
BitsToNat(bits) ==
    IF bits = <<>> THEN 0 ELSE (IF Head(bits) THEN 1 ELSE 0) + 2 * BitsToNat(Tail(bits))

Reverse(s) == [j \in 1..Len(s) |-> s[Len(s) + 1 - j]]

Take(s, n) == SubSeq(s, 1, IF n < Len(s) THEN n ELSE Len(s))

\* the little-endian bits of a field element, n of them
BitsLE(x, n) == [j \in 1..n |-> (x \div Pow2(j - 1)) % 2 = 1]

----------------------------------------------------------------------------
(* The hash collaborators, as functions of their inputs.                   *)

\* pedersen_hash(Personalization::MerkleTree(tag), bits).x
PedersenHash(tag, bits) ==
    LET n == BitsToNat(bits) IN (n * n + 7 * n + 3 * tag + 5) % FrModulus

\* sha256_block_no_padding: 2n bits to n bits
Sha256Compress(bits) ==
    LET n == Len(bits) \div 2
        l == SubSeq(bits, 1, n)
        r == SubSeq(bits, n + 1, 2 * n)
        nx(j) == (j % n) + 1
    IN  [j \in 1..n |-> (l[j] # r[nx(j)]) # (l[nx(j)] /\ ~r[j])]

----------------------------------------------------------------------------
(* Satisfaction of the registered constraints (TestConstraintSystem::      *)
(* is_satisfied), for a system that holds values.                          *)

ConstraintHolds(c, con) ==
    CASE con.kind = "r1cs" ->
            FrMul(EvalLC(c, con.a), EvalLC(c, con.b)) = EvalLC(c, con.c)
      [] con.kind = "pedersen" ->
            ValueOf(c, con.out) =
                PedersenHash(con.tag, [j \in 1..Len(con.bits) |-> ValueOf(c, con.bits[j]) = 1])
      [] con.kind = "sha256" ->
            [j \in 1..Len(con.out) |-> ValueOf(c, con.out[j]) = 1] =
                Sha256Compress([j \in 1..Len(con.bits) |-> ValueOf(c, con.bits[j]) = 1])

IsSatisfied(c) == \A j \in 1..Len(c.constraints) : ConstraintHolds(c, c.constraints[j])

----------------------------------------------------------------------------
(* Gadgets of bellman used by the circuits.  Each takes the constraint     *)
(* system and a namespace (a path of strings) and returns a Result.        *)

\* num::AllocatedNum::alloc
AllocatedNum_alloc(c, ns, value) ==
    LET r == CS_alloc(c, "aux", ns \o <<"num">>, value)
    IN  IF r.err # "ok" THEN r
        ELSE Ok(r.cs, [variable |-> r.out, value |-> IF c.mode = "eval" THEN value ELSE None])

\* boolean::AllocatedBit::alloc: the witness and (1 - a) * a = 0
AllocatedBit_alloc(c, ns, value) ==
    LET r == CS_alloc(c, "aux", ns \o <<"boolean">>,
                      IF IsSome(value) THEN Some(IF Unwrap(value) THEN 1 ELSE 0) ELSE None)
    IN  IF r.err # "ok" THEN r
        ELSE Ok(CS_enforce(r.cs, ns \o <<"boolean constraint">>,
                           <<Term(1, ONE), Term(0 - 1, r.out)>>, <<Term(1, r.out)>>, <<>>),
                [variable |-> r.out, value |-> value])

\* allocates the bits values[k..] as "bit k-1", "bit k", ... and appends them to acc
RECURSIVE AllocBits(_, _, _, _, _)
AllocBits(c, ns, values, k, acc) ==
    IF k > Len(values) THEN Ok(c, acc)
    ELSE LET r == AllocatedBit_alloc(c, ns \o <<"bit", ToString(k - 1)>>, values[k])
         IN  IF r.err # "ok" THEN r
             ELSE AllocBits(r.cs, ns, values, k + 1, Append(acc, r.out))

\* the linear combination sum of bits[j] * 2^(j-1)
PackLC(bits) == [j \in 1..Len(bits) |-> Term(Pow2(j - 1), bits[j].variable)]

\* AllocatedNum::to_bits_le: FrNumBits bit witnesses, least significant first,
\* and the unpacking constraint 0 * 0 = sum - self
AllocatedNum_to_bits_le(c, ns, num) ==
    LET values == IF IsSome(num.value)
                  THEN [j \in 1..FrNumBits |-> Some(BitsLE(Unwrap(num.value), FrNumBits)[j])]
                  ELSE [j \in 1..FrNumBits |-> None]
        r == AllocBits(c, ns, values, 1, <<>>)
    IN  IF r.err # "ok" THEN r
        ELSE Ok(CS_enforce(r.cs, ns \o <<"unpacking constraint">>, <<>>, <<>>,
                           Append(PackLC(r.out), Term(0 - 1, num.variable))),
                r.out)

\* AllocatedNum::conditionally_reverse(a, b, condition): (c, d) with
\* (a - b) * condition = a - c and (b - a) * condition = b - d
AllocatedNum_conditionally_reverse(c, ns, a, b, condition) ==
    LET sel(x, y) == IF ~IsSome(condition.value) THEN None
                     ELSE IF Unwrap(condition.value) THEN x.value ELSE y.value
        r1 == AllocatedNum_alloc(c, ns \o <<"conditional reversal result 1">>, sel(b, a))
    IN  IF r1.err # "ok" THEN r1
        ELSE LET c1 == CS_enforce(r1.cs, ns \o <<"first conditional reversal">>,
                                  <<Term(1, a.variable), Term(0 - 1, b.variable)>>,
                                  <<Term(1, condition.variable)>>,
                                  <<Term(1, a.variable), Term(0 - 1, r1.out.variable)>>)
                 r2 == AllocatedNum_alloc(c1, ns \o <<"conditional reversal result 2">>, sel(a, b))
             IN  IF r2.err # "ok" THEN r2
                 ELSE Ok(CS_enforce(r2.cs, ns \o <<"second conditional reversal">>,
                                    <<Term(1, b.variable), Term(0 - 1, a.variable)>>,
                                    <<Term(1, condition.variable)>>,
                                    <<Term(1, b.variable), Term(0 - 1, r2.out.variable)>>),
                         <<r1.out, r2.out>>)

\* AllocatedNum::inputize: a public input equal to the witness
AllocatedNum_inputize(c, ns, num) ==
    LET r == CS_alloc(c, "inputs", ns \o <<"input variable">>, num.value)
    IN  IF r.err # "ok" THEN r
        ELSE Ok(CS_enforce(r.cs, ns \o <<"enforce input is correct">>,
                           <<Term(1, r.out)>>, <<Term(1, ONE)>>, <<Term(1, num.variable)>>),
                None)

AllSome(bits) == \A j \in 1..Len(bits) : IsSome(bits[j].value)

\* pedersen_hash::pedersen_hash(cs, personalization, preimage, params).get_x():
\* the witness of the hash's x-coordinate, constrained to be the hash of the bits
pedersen_hash(c, ns, tag, preimage) ==
    LET r == AllocatedNum_alloc(c, ns \o <<"x">>,
                 IF AllSome(preimage)
                 THEN Some(PedersenHash(tag, [j \in 1..Len(preimage) |-> Unwrap(preimage[j].value)]))
                 ELSE None)
    IN  IF r.err # "ok" THEN r
        ELSE Ok([r.cs EXCEPT !.constraints = Append(@,
                    [kind |-> "pedersen", name |-> ns, tag |-> tag,
                     bits |-> [j \in 1..Len(preimage) |-> preimage[j].variable],
                     out |-> r.out.variable])],
                r.out)

----------------------------------------------------------------------------
(* Running one statement of an entry point.  The constraint system may     *)
(* refuse any allocation: the statement runs on a system that never       *)
(* refuses, or that refuses the statement's first, second or last          *)
(* allocation (it accepts r more allocations, n being the number made).    *)

Refusals(n) == {Unlimited} \cup {r \in 0..(n - 1) : r <= 1 \/ r = n - 1}

WithBudget(c, r) == [c EXCEPT !.left = r]

Running == [status |-> "running", why |-> ""]

Success == [status |-> "Ok", why |-> ""]

\* a failed assert_eq! inside a callee is a panic, whatever the caller does with the Result
AssertFailed == "assertion failed: left == right"

\* how a failed call ends the function: Err(e) returned, or the panic unwinding through it
Failure(e) == [status |-> IF e = AssertFailed THEN "panic" ELSE "Err", why |-> e]

\* the "?" operator: continue at nextpc with the new locals, or return the error
Try(res, nextpc, newloc) ==
    /\ cs' = WithBudget(res.cs, Unlimited)
    /\ IF res.err = "ok"
       THEN pc' = nextpc /\ loc' = newloc /\ UNCHANGED result
       ELSE pc' = "done" /\ result' = Failure(res.err) /\ UNCHANGED loc
    /\ UNCHANGED <<prog, circuit>>

\* ".unwrap()": continue, or panic on the error
TryUnwrap(res, nextpc, newloc) ==
    /\ cs' = WithBudget(res.cs, Unlimited)
    /\ IF res.err = "ok"
       THEN pc' = nextpc /\ loc' = newloc /\ UNCHANGED result
       ELSE pc' = "done" /\ result' = [status |-> "panic", why |-> res.err] /\ UNCHANGED loc
    /\ UNCHANGED <<prog, circuit>>

----------------------------------------------------------------------------
(* MerklePedersen::synthesize, merkle.rs 39-121 *)

\* e.map(|e| e.1) and e.get()?.0 of an auth-path entry
EntryBit(e) == IF IsSome(e) THEN Some(Unwrap(e).is_right) ELSE None
EntrySibling(e) == IF IsSome(e) THEN Some(Unwrap(e).sibling) ELSE None

MP_Ns(i) == <<"merkle tree hash", ToString(i)>>

MP_Locals ==
    [cur |-> None, i |-> 0, position_bits |-> <<>>, cur_is_right |-> None,
     path_element |-> None, xl |-> None, xr |-> None, preimage |-> <<>>, rt |-> None]

MP_LoopHead_SkipsLast(i) == IF i + 1 < Len(circuit.auth_path) THEN "position_bit" ELSE "anchor"

\* where the loop over auth_path goes after the leaf and after each layer
MP_LoopHead(i) == IF i < Len(circuit.auth_path) THEN "position_bit" ELSE "anchor"

\* line 41 and 50: cm allocated from leaf, cur = cm
MP_AllocLeaf ==
    /\ prog = "MerklePedersen" /\ pc = "leaf"
    /\ \E r \in Refusals(1) :
         LET res == AllocatedNum_alloc(WithBudget(cs, r), <<"leaf">>, circuit.leaf)
         IN  Try(res, MP_LoopHead(0), [loc EXCEPT !.cur = res.out])

\* lines 58-64: the side bit of layer i, pushed to position_bits
MP_AllocPositionBit ==
    /\ prog = "MerklePedersen" /\ pc = "position_bit"
    /\ \E r \in Refusals(1) :
         LET e == circuit.auth_path[loc.i + 1]
             res == AllocatedBit_alloc(WithBudget(cs, r), MP_Ns(loc.i) \o <<"position bit">>,
                                       EntryBit(e))
         IN  Try(res, "path_element",
                 [loc EXCEPT !.cur_is_right = res.out,
                             !.position_bits = Append(@, res.out)])

\* lines 68-69: the sibling of layer i
MP_AllocPathElement ==
    /\ prog = "MerklePedersen" /\ pc = "path_element"
    /\ \E r \in Refusals(1) :
         LET e == circuit.auth_path[loc.i + 1]
             res == AllocatedNum_alloc(WithBudget(cs, r), MP_Ns(loc.i) \o <<"path element">>,
                                       EntrySibling(e))
         IN  Try(res, "reverse", [loc EXCEPT !.path_element = res.out])

MP_ReversalOperands_Swapped(l) == <<l.path_element, l.cur>>

MP_ReversalOperands_ByValue(l) ==
    IF l.cur_is_right.value = Some(TRUE) THEN <<l.path_element, l.cur>> ELSE <<l.cur, l.path_element>>

\* lines 74-75: the operands (a, b) handed to conditionally_reverse
MP_ReversalOperands(l) == <<l.cur, l.path_element>>

\* lines 72-77: (xl, xr) = conditionally_reverse(cur, path_element, cur_is_right)
MP_ConditionallyReverse ==
    /\ prog = "MerklePedersen" /\ pc = "reverse"
    /\ \E r \in Refusals(2) :
         LET ab == MP_ReversalOperands(loc)
             res == AllocatedNum_conditionally_reverse(
                        WithBudget(cs, r), MP_Ns(loc.i) \o <<"conditional reversal of preimage">>,
                        ab[1], ab[2], loc.cur_is_right)
         IN  Try(res, "xl_bits", [loc EXCEPT !.xl = res.out[1], !.xr = res.out[2], !.preimage = <<>>])

\* line 84: preimage.extend(xl.to_bits_le(..)?)
MP_XlIntoBits ==
    /\ prog = "MerklePedersen" /\ pc = "xl_bits"
    /\ \E r \in Refusals(FrNumBits) :
         LET res == AllocatedNum_to_bits_le(WithBudget(cs, r), MP_Ns(loc.i) \o <<"xl into bits">>,
                                            loc.xl)
         IN  Try(res, "xr_bits", [loc EXCEPT !.preimage = @ \o res.out])

\* line 85: preimage.extend(xr.to_bits_le(..)?)
MP_XrIntoBits ==
    /\ prog = "MerklePedersen" /\ pc = "xr_bits"
    /\ \E r \in Refusals(FrNumBits) :
         LET res == AllocatedNum_to_bits_le(WithBudget(cs, r), MP_Ns(loc.i) \o <<"xr into bits">>,
                                            loc.xr)
         IN  Try(res, "hash", [loc EXCEPT !.preimage = @ \o res.out])

MP_Personalization_Fixed(i) == 0

\* line 90: Personalization::MerkleTree(i), i the index of the layer
MP_Personalization(i) == i

\* lines 88-96: cur = pedersen_hash(MerkleTree(i), preimage).get_x(); next layer
MP_PedersenHash ==
    /\ prog = "MerklePedersen" /\ pc = "hash"
    /\ \E r \in Refusals(1) :
         LET res == pedersen_hash(WithBudget(cs, r),
                                  MP_Ns(loc.i) \o <<"computation of pedersen hash">>,
                                  MP_Personalization(loc.i), loc.preimage)
         IN  Try(res, MP_LoopHead(loc.i + 1), [loc EXCEPT !.cur = res.out, !.i = @ + 1])

\* lines 99-104: rt allocated from anchor
MP_AllocAnchor ==
    /\ prog = "MerklePedersen" /\ pc = "anchor"
    /\ \E r \in Refusals(1) :
         LET res == AllocatedNum_alloc(WithBudget(cs, r), <<"conditional anchor">>, circuit.anchor)
         IN  Try(res, "enforce", [loc EXCEPT !.rt = res.out])

\* the constraint of lines 109-114: A = cur, B = rt, C = 0
MP_RootConstraint(cur, rt) ==
    [a |-> <<Term(1, cur.variable)>>, b |-> <<Term(1, rt.variable)>>, c |-> <<>>]

\* lines 109-114: cs.enforce("enforce correct root", ..)
MP_EnforceRoot ==
    /\ prog = "MerklePedersen" /\ pc = "enforce"
    /\ LET k == MP_RootConstraint(loc.cur, loc.rt)
       IN  cs' = CS_enforce(cs, <<"enforce correct root">>, k.a, k.b, k.c)
    /\ pc' = "inputize"
    /\ UNCHANGED <<prog, circuit, loc, result>>

MP_Exposed_Cur(l) == l.cur

\* the witness exposed by line 117
MP_Exposed(l) == l.rt

\* lines 117-120: rt.inputize(..)?; Ok(())
MP_Inputize ==
    /\ prog = "MerklePedersen" /\ pc = "inputize"
    /\ \E r \in Refusals(1) :
         LET res == AllocatedNum_inputize(WithBudget(cs, r), <<"anchor">>, MP_Exposed(loc))
         IN  /\ cs' = WithBudget(res.cs, Unlimited)
             /\ pc' = "done"
             /\ result' = IF res.err = "ok" THEN Success ELSE Failure(res.err)
             /\ UNCHANGED <<prog, circuit, loc>>

MP_Next ==
    \/ MP_AllocLeaf
    \/ MP_AllocPositionBit
    \/ MP_AllocPathElement
    \/ MP_ConditionallyReverse
    \/ MP_XlIntoBits
    \/ MP_XrIntoBits
    \/ MP_PedersenHash
    \/ MP_AllocAnchor
    \/ MP_EnforceRoot
    \/ MP_Inputize

----------------------------------------------------------------------------
(* The out-of-circuit reference ladder of the test, merkle.rs 149-182 *)

\* BitIterator::new(x.into_repr()): the bits of the representation, most
\* significant first; the representation has one bit more than FrNumBits
ReprBitsBE(x) == Reverse(BitsLE(x, FrNumBits + 1))

\* lines 156-177: one layer, from cur and the entry (uncle, b)
RefLayer(i, cur, uncle, b) ==
    LET lhs0 == IF b THEN uncle ELSE cur
        rhs0 == IF b THEN cur ELSE uncle
        lhs == Reverse(ReprBitsBE(lhs0))
        rhs == Reverse(ReprBitsBE(rhs0))
    IN  PedersenHash(i, Take(lhs, FrNumBits) \o Take(rhs, FrNumBits))

\* lines 153-182: the root of leaf cm along path (entries all present), from layer i on
RECURSIVE RefRootFrom(_, _, _)
RefRootFrom(i, cur, path) ==
    IF i >= Len(path) THEN cur
    ELSE RefRootFrom(i + 1,
                     RefLayer(i, cur, Unwrap(path[i + 1]).sibling, Unwrap(path[i + 1]).is_right),
                     path)

RefRoot(cm, path) == RefRootFrom(0, cm, path)

----------------------------------------------------------------------------
(* The circuits handed to MerklePedersen::synthesize: the fields are       *)
(* public and optional, so any combination is constructible.  The anchor   *)
(* is any sampled value (examples/merkle_pedersen.rs 79) or the root of    *)
(* the reference ladder (merkle.rs 190).                                   *)

FrSample == {0, 1}

OptFr == {None} \cup {Some(x) : x \in FrSample}

MP_Entries == {None} \cup {Some([sibling |-> x, is_right |-> b]) : x \in FrSample, b \in BOOLEAN}

AllPresent(c) ==
    /\ IsSome(c.leaf) /\ IsSome(c.anchor)
    /\ \A j \in 1..Len(c.auth_path) : IsSome(c.auth_path[j])

PathPresent(c) == IsSome(c.leaf) /\ \A j \in 1..Len(c.auth_path) : IsSome(c.auth_path[j])

MP_Circuits ==
    UNION { { [leaf |-> l, auth_path |-> p, anchor |-> a] :
                a \in OptFr \cup (IF IsSome(l) /\ \A j \in 1..Len(p) : IsSome(p[j])
                                  THEN {Some(RefRoot(Unwrap(l), p))} ELSE {}) } :
            l \in OptFr, p \in UNION {[1..d -> MP_Entries] : d \in 0..MaxDepth} }

Modes == {"eval", "shape"}

MP_Init ==
    /\ prog = "MerklePedersen"
    /\ circuit \in MP_Circuits
    /\ cs \in {NewCS(m) : m \in Modes}
    /\ pc = "leaf"
    /\ loc = MP_Locals
    /\ result = Running

SpecMP == MP_Init /\ [][MP_Next]_vars

----------------------------------------------------------------------------
(* witness_bits, witness_u256, witness_u252: merkle_sha/mod.rs 176-227 *)

BytesToBits_LsbFirst(value) ==
    [j \in 1..(8 * Len(value)) |->
        (value[((j - 1) \div 8) + 1] \div Pow2((j - 1) % 8)) % 2 = 1]

\* line 190: the bits of the bytes, each byte from its bit 7 down to its bit 0
BytesToBits(value) ==
    [j \in 1..(8 * Len(value)) |->
        (value[((j - 1) \div 8) + 1] \div Pow2(7 - ((j - 1) % 8))) % 2 = 1]

\* Iterator::skip(n)
Skip(s, n) == IF n >= Len(s) THEN <<>> ELSE SubSeq(s, n + 1, Len(s))

\* lines 186-198
WB_BitValues(value, num_bits, skip_bits) ==
    IF IsSome(value)
    THEN LET b == Skip(BytesToBits(Unwrap(value)), skip_bits)
         IN  [j \in 1..Len(b) |-> Some(b[j])]
    ELSE [j \in 1..num_bits |-> None]

witness_bits_LateAssert(c, ns, value, num_bits, skip_bits) ==
    LET bit_values == WB_BitValues(value, num_bits, skip_bits)
        r == AllocBits(c, ns, bit_values, 1, <<>>)
    IN  IF r.err = "ok" /\ Len(bit_values) # num_bits THEN Fail(r.cs, AssertFailed) ELSE r

\* lines 176-211
witness_bits(c, ns, value, num_bits, skip_bits) ==
    LET bit_values == WB_BitValues(value, num_bits, skip_bits)
    IN  IF Len(bit_values) # num_bits THEN Fail(c, AssertFailed)
        ELSE AllocBits(c, ns, bit_values, 1, <<>>)

\* the width of the scaled [u8; 32]
U256Bits == 8 * NumBytes

\* lines 213-219
witness_u256(c, ns, value) == witness_bits(c, ns, value, U256Bits, 0)

\* lines 221-227
witness_u252(c, ns, value) == witness_bits(c, ns, value, U256Bits - 4, 4)

----------------------------------------------------------------------------
(* Collaborators of JoinSplit that are not in the source at hand.          *)

\* conditionally_swap_u256(lhs, rhs, condition): per bit j the witnesses
\*   x = rhs*cond + lhs*(1-cond),  y = lhs*cond + rhs*(1-cond),
\* each enforced; returns the x bits followed by the y bits
RECURSIVE SwapBits(_, _, _, _, _, _, _, _)
SwapBits(c, ns, lhs, rhs, condition, j, xs, ys) ==
    IF j > Len(lhs) THEN Ok(c, xs \o ys)
    ELSE LET sel(p, q) == IF ~IsSome(condition.value) THEN None
                          ELSE IF Unwrap(condition.value) THEN p.value ELSE q.value
             nsj == ns \o <<"bit", ToString(j - 1)>>
             rx == AllocatedBit_alloc(c, nsj \o <<"x">>, sel(rhs[j], lhs[j]))
         IN  IF rx.err # "ok" THEN rx
             ELSE LET c1 == CS_enforce(rx.cs, nsj \o <<"conditional swap for x">>,
                                       <<Term(1, rhs[j].variable), Term(0 - 1, lhs[j].variable)>>,
                                       <<Term(1, condition.variable)>>,
                                       <<Term(1, rx.out.variable), Term(0 - 1, lhs[j].variable)>>)
                      ry == AllocatedBit_alloc(c1, nsj \o <<"y">>, sel(lhs[j], rhs[j]))
                  IN  IF ry.err # "ok" THEN ry
                      ELSE SwapBits(
                               CS_enforce(ry.cs, nsj \o <<"conditional swap for y">>,
                                          <<Term(1, lhs[j].variable), Term(0 - 1, rhs[j].variable)>>,
                                          <<Term(1, condition.variable)>>,
                                          <<Term(1, ry.out.variable), Term(0 - 1, rhs[j].variable)>>),
                               ns, lhs, rhs, condition, j + 1,
                               Append(xs, rx.out), Append(ys, ry.out))

conditionally_swap_u256(c, ns, lhs, rhs, condition) ==
    SwapBits(c, ns, lhs, rhs, condition, 1, <<>>, <<>>)

\* sha256_block_no_padding(cs, input): witnesses of the digest bits, constrained
\* to be the compression of the input bits
sha256_block_no_padding(c, ns, input) ==
    LET n == Len(input) \div 2
        digest == IF AllSome(input)
                  THEN LET d == Sha256Compress([j \in 1..Len(input) |-> Unwrap(input[j].value)])
                       IN  [j \in 1..n |-> Some(d[j])]
                  ELSE [j \in 1..n |-> None]
        r == AllocBits(c, ns, digest, 1, <<>>)
    IN  IF r.err # "ok" THEN r
        ELSE Ok([r.cs EXCEPT !.constraints = Append(@,
                    [kind |-> "sha256", name |-> ns,
                     bits |-> [j \in 1..Len(input) |-> input[j].variable],
                     out |-> [j \in 1..n |-> r.out[j].variable]])],
                r.out)

\* the chunks of at most n elements of s, in order
RECURSIVE Chunks(_, _)
Chunks(s, n) ==
    IF s = <<>> THEN <<>>
    ELSE <<Take(s, n)>> \o Chunks(Skip(s, n), n)

\* multipack::pack_into_inputs: per chunk of Fr::CAPACITY bits one public input
\* "input k" and the constraint (sum of bit * 2^j) * 1 = input
RECURSIVE PackChunks(_, _, _, _)
PackChunks(c, ns, chunks, k) ==
    IF k > Len(chunks) THEN Ok(c, None)
    ELSE LET bits == chunks[k]
             r == CS_alloc(c, "inputs", ns \o <<"input", ToString(k - 1)>>,
                           IF AllSome(bits)
                           THEN Some(BitsToNat([j \in 1..Len(bits) |-> Unwrap(bits[j].value)])
                                         % FrModulus)
                           ELSE None)
         IN  IF r.err # "ok" THEN r
             ELSE PackChunks(CS_enforce(r.cs, ns \o <<"packing constraint", ToString(k - 1)>>,
                                        PackLC(bits), <<Term(1, ONE)>>, <<Term(1, r.out)>>),
                             ns, chunks, k + 1)

pack_into_inputs(c, ns, bits) == PackChunks(c, ns, Chunks(bits, FrCapacity), 1)

\* the public inputs pack_into_inputs makes for n bits
NumPackedInputs(n) == (n + FrCapacity - 1) \div FrCapacity

----------------------------------------------------------------------------
(* JoinSplit::synthesize, merkle_sha/mod.rs 113-172 *)

JS_Ns(input, layer) == <<"input", ToString(input), "layer", ToString(layer)>>

JS_Locals ==
    [rt |-> <<>>, input |-> 0, leaf |-> <<>>, cur |-> <<>>, i |-> 0,
     cur_is_right |-> None, lhs |-> <<>>, rhs |-> <<>>, preimage |-> <<>>]

\* where the loops of lines 122 and 129 go next, for input k at layer i
JS_LoopHead(k, i) ==
    IF k >= Len(circuit.inputs) THEN "pack"
    ELSE IF i < Len(circuit.inputs[k + 1].auth_path) THEN "cur_is_right"
    ELSE IF k + 1 < Len(circuit.inputs) THEN "leaf"
    ELSE "pack"

JS_InputCountOk_AtLeastOne(n) == n >= 1

\* line 115: the condition asserted on inputs.len()
JS_InputCountOk(n) == n = 1

\* line 115: assert_eq!(self.inputs.len(), 1)
JS_AssertInputs ==
    /\ prog = "JoinSplit" /\ pc = "assert"
    /\ IF JS_InputCountOk(Len(circuit.inputs))
       THEN pc' = "rt" /\ UNCHANGED result
       ELSE pc' = "done" /\ result' = Failure(AssertFailed)
    /\ UNCHANGED <<prog, circuit, cs, loc>>

\* line 118: rt = witness_u256("rt", self.rt).unwrap()
JS_WitnessRt ==
    /\ prog = "JoinSplit" /\ pc = "rt"
    /\ \E r \in Refusals(U256Bits) :
         LET res == witness_u256(WithBudget(cs, r), <<"rt">>, circuit.rt)
         IN  TryUnwrap(res, IF Len(circuit.inputs) > 0 THEN "leaf" ELSE "pack",
                       [loc EXCEPT !.rt = res.out])

\* lines 122-127: leaf = witness_u256("leaf", input.leaf).unwrap(); cur = leaf
JS_WitnessLeaf ==
    /\ prog = "JoinSplit" /\ pc = "leaf"
    /\ \E r \in Refusals(U256Bits) :
         LET res == witness_u256(WithBudget(cs, r), <<"input", ToString(loc.input), "leaf">>,
                                 circuit.inputs[loc.input + 1].leaf)
         IN  TryUnwrap(res, JS_LoopHead(loc.input, 0),
                       [loc EXCEPT !.leaf = res.out, !.cur = res.out, !.i = 0])

\* lines 132-135: cur_is_right = AllocatedBit::alloc(layer side bit)?
JS_AllocCurIsRight ==
    /\ prog = "JoinSplit" /\ pc = "cur_is_right"
    /\ \E r \in Refusals(1) :
         LET layer == circuit.inputs[loc.input + 1].auth_path[loc.i + 1]
             res == AllocatedBit_alloc(WithBudget(cs, r),
                                       JS_Ns(loc.input, loc.i) \o <<"cur is right">>,
                                       EntryBit(layer))
         IN  Try(res, "sibling", [loc EXCEPT !.cur_is_right = res.out])

\* lines 137-141: lhs = cur; rhs = witness_u256("sibling", layer sibling)?
JS_WitnessSibling ==
    /\ prog = "JoinSplit" /\ pc = "sibling"
    /\ \E r \in Refusals(U256Bits) :
         LET layer == circuit.inputs[loc.input + 1].auth_path[loc.i + 1]
             res == witness_u256(WithBudget(cs, r), JS_Ns(loc.input, loc.i) \o <<"sibling">>,
                                 EntrySibling(layer))
         IN  Try(res, "swap", [loc EXCEPT !.lhs = loc.cur, !.rhs = res.out])

\* lines 144-149: preimage = conditionally_swap_u256(lhs, rhs, cur_is_right)?
JS_ConditionallySwap ==
    /\ prog = "JoinSplit" /\ pc = "swap"
    /\ \E r \in Refusals(2 * U256Bits) :
         LET res == conditionally_swap_u256(WithBudget(cs, r),
                                            JS_Ns(loc.input, loc.i) \o <<"conditional swap">>,
                                            loc.lhs, loc.rhs, loc.cur_is_right)
         IN  Try(res, "hash", [loc EXCEPT !.preimage = res.out])

\* line 151: cur = sha256_block_no_padding(preimage)?; next layer, next input
JS_HashLayer ==
    /\ prog = "JoinSplit" /\ pc = "hash"
    /\ \E r \in Refusals(U256Bits) :
         LET res == sha256_block_no_padding(WithBudget(cs, r),
                                            JS_Ns(loc.input, loc.i) \o <<"hash of this layer">>,
                                            loc.preimage)
             last == loc.i + 1 >= Len(circuit.inputs[loc.input + 1].auth_path)
         IN  Try(res, JS_LoopHead(loc.input, loc.i + 1),
                 [loc EXCEPT !.cur = res.out, !.i = @ + 1,
                             !.input = IF last THEN @ + 1 ELSE @])

JS_PublicBits_Cur(l) == l.cur

\* lines 167-168: the bits that are packed into the public inputs
JS_PublicBits(l) == l.rt

\* lines 167-170: pack_into_inputs("input packing", public_inputs), returned as is
JS_PackInputs ==
    /\ prog = "JoinSplit" /\ pc = "pack"
    /\ \E r \in Refusals(NumPackedInputs(U256Bits)) :
         LET res == pack_into_inputs(WithBudget(cs, r), <<"input packing">>, JS_PublicBits(loc))
         IN  /\ cs' = WithBudget(res.cs, Unlimited)
             /\ pc' = "done"
             /\ result' = IF res.err = "ok" THEN Success ELSE Failure(res.err)
             /\ UNCHANGED <<prog, circuit, loc>>

JS_Next ==
    \/ JS_AssertInputs
    \/ JS_WitnessRt
    \/ JS_WitnessLeaf
    \/ JS_AllocCurIsRight
    \/ JS_WitnessSibling
    \/ JS_ConditionallySwap
    \/ JS_HashLayer
    \/ JS_PackInputs

----------------------------------------------------------------------------
(* The JoinSplit structs handed to synthesize: any number of inputs up to  *)
(* MaxInputs, every field optional.                                        *)

ByteSample == {90, 177}

U256Sample == {[j \in 1..NumBytes |-> b] : b \in ByteSample}

OptU256 == {None} \cup {Some(x) : x \in U256Sample}

U256Of(b) == [j \in 1..NumBytes |-> b]

JS_Entries ==
    {None, Some([sibling |-> U256Of(90), is_right |-> FALSE]),
           Some([sibling |-> U256Of(90), is_right |-> TRUE]),
           Some([sibling |-> U256Of(177), is_right |-> TRUE])}

JS_Inputs ==
    { [leaf |-> l, auth_path |-> p] :
        l \in {None, Some(U256Of(177))},
        p \in UNION {[1..d -> JS_Entries] : d \in 0..MaxDepth} }

\* a JoinSplit with a number of inputs other than one: copies of one input,
\* as synthesize stops at line 115 before reading any of them
JS_Circuits ==
    { [inputs |-> [j \in 1..n |-> x], rt |-> rt] :
        n \in 0..MaxInputs, x \in JS_Inputs, rt \in OptU256 }

JS_Init ==
    /\ prog = "JoinSplit"
    /\ circuit \in JS_Circuits
    /\ cs \in {NewCS(m) : m \in Modes}
    /\ pc = "assert"
    /\ loc = JS_Locals
    /\ result = Running

SpecJS == JS_Init /\ [][JS_Next]_vars

----------------------------------------------------------------------------
(* A direct call of witness_bits(cs, value, num_bits, skip_bits) *)

WB_Locals == [bits |-> <<>>]

\* lines 176-211, the whole call
WB_Call ==
    /\ prog = "witness_bits" /\ pc = "call"
    /\ \E r \in Refusals(circuit.num_bits) :
         LET res == witness_bits(WithBudget(cs, r), <<>>, circuit.value,
                                 circuit.num_bits, circuit.skip_bits)
         IN  /\ cs' = WithBudget(res.cs, Unlimited)
             /\ pc' = "done"
             /\ result' = IF res.err = "ok" THEN Success ELSE Failure(res.err)
             /\ loc' = IF res.err = "ok" THEN [loc EXCEPT !.bits = res.out] ELSE loc
             /\ UNCHANGED <<prog, circuit>>

\* lines 213-219, the whole call of witness_u256(cs, value)
WB_CallU256 ==
    /\ prog = "witness_u256" /\ pc = "call"
    /\ \E r \in Refusals(U256Bits) :
         LET res == witness_u256(WithBudget(cs, r), <<>>, circuit.value)
         IN  /\ cs' = WithBudget(res.cs, Unlimited)
             /\ pc' = "done"
             /\ result' = IF res.err = "ok" THEN Success ELSE Failure(res.err)
             /\ loc' = IF res.err = "ok" THEN [loc EXCEPT !.bits = res.out] ELSE loc
             /\ UNCHANGED <<prog, circuit>>

\* lines 221-227, the whole call of witness_u252(cs, value)
WB_CallU252 ==
    /\ prog = "witness_u252" /\ pc = "call"
    /\ \E r \in Refusals(U256Bits - 4) :
         LET res == witness_u252(WithBudget(cs, r), <<>>, circuit.value)
         IN  /\ cs' = WithBudget(res.cs, Unlimited)
             /\ pc' = "done"
             /\ result' = IF res.err = "ok" THEN Success ELSE Failure(res.err)
             /\ loc' = IF res.err = "ok" THEN [loc EXCEPT !.bits = res.out] ELSE loc
             /\ UNCHANGED <<prog, circuit>>

WB_Next ==
    \/ WB_Call
    \/ WB_CallU256
    \/ WB_CallU252

\* the longest byte string handed to witness_bits: one byte more than a u256
WB_MaxBytes == NumBytes + 1

\* byte strings of 0..WB_MaxBytes sampled bytes
ByteStrings == UNION {[1..n -> ByteSample] : n \in 0..WB_MaxBytes}

WB_Values == {None} \cup {Some(b) : b \in ByteStrings}

WB_Calls ==
    { [value |-> v, num_bits |-> n, skip_bits |-> k] :
        v \in WB_Values,
        n \in 0..(8 * WB_MaxBytes),
        k \in 0..(8 * WB_MaxBytes + 1) }

WB_Init ==
    /\ \/ prog = "witness_bits" /\ circuit \in WB_Calls
       \/ prog \in {"witness_u256", "witness_u252"} /\ circuit \in {[value |-> v] : v \in WB_Values}
    /\ cs \in {NewCS(m) : m \in Modes}
    /\ pc = "call"
    /\ loc = WB_Locals
    /\ result = Running

SpecWB == WB_Init /\ [][WB_Next]_vars

----------------------------------------------------------------------------
(* NoteValue, merkle_sha/mod.rs 29-94.  A u64 has ValueBits bits here.     *)

NV_Decompose_NoShift(val, n) == [j \in 1..n |-> Some(val % 2 = 1)]

\* lines 43-49: values.push(Some(val & 1 == 1)); val >>= 1, n times
RECURSIVE NV_Decompose(_, _)
NV_Decompose(val, n) ==
    IF n = 0 THEN <<>>
    ELSE <<Some(val % 2 = 1)>> \o NV_Decompose(val \div 2, n - 1)

\* lines 41-53
NV_Values(value) ==
    IF IsSome(value) THEN NV_Decompose(Unwrap(value), ValueBits)
    ELSE [j \in 1..ValueBits |-> None]

\* lines 36-64: NoteValue::new
NoteValue_new(c, value) ==
    LET r == AllocBits(c, <<>>, NV_Values(value), 1, <<>>)
    IN  IF r.err # "ok" THEN r ELSE Ok(r.cs, [value |-> value, bits |-> r.out])

\* lines 82-86: the terms (coeff, bit) with coeff doubled in the field after each
RECURSIVE NV_LcFrom(_, _)
NV_LcFrom(bits, coeff) ==
    IF bits = <<>> THEN <<>>
    ELSE <<Term(coeff, Head(bits).variable)>> \o NV_LcFrom(Tail(bits), FrAdd(coeff, coeff))

\* lines 79-89: NoteValue::lc
NoteValue_lc(note) == NV_LcFrom(note.bits, 1)

\* lines 68-75: NoteValue::bits_le, each chunk of 8 bits reversed
NoteValue_bits_le(note) ==
    LET ch == Chunks(note.bits, 8)
        RECURSIVE Flat(_)
        Flat(k) == IF k > Len(ch) THEN <<>> ELSE Reverse(ch[k]) \o Flat(k + 1)
    IN  Flat(1)

\* lines 91-93: NoteValue::get_value
NoteValue_get_value(note) == note.value

NV_Locals == [note |-> None, lc |-> None, bits_le |-> None, got |-> None]

NV_New ==
    /\ prog = "NoteValue" /\ pc = "new"
    /\ \E r \in Refusals(ValueBits) :
         LET res == NoteValue_new(WithBudget(cs, r), circuit.value)
         IN  /\ cs' = WithBudget(res.cs, Unlimited)
             /\ IF res.err = "ok"
                THEN pc' = "made" /\ result' = Success /\ loc' = [loc EXCEPT !.note = res.out]
                ELSE pc' = "done" /\ result' = Failure(res.err) /\ UNCHANGED loc
             /\ UNCHANGED <<prog, circuit>>

NV_Lc ==
    /\ prog = "NoteValue" /\ pc = "made" /\ loc.lc = None
    /\ loc' = [loc EXCEPT !.lc = Some(NoteValue_lc(loc.note))]
    /\ UNCHANGED <<prog, circuit, cs, pc, result>>

NV_BitsLe ==
    /\ prog = "NoteValue" /\ pc = "made" /\ loc.bits_le = None
    /\ loc' = [loc EXCEPT !.bits_le = Some(NoteValue_bits_le(loc.note))]
    /\ UNCHANGED <<prog, circuit, cs, pc, result>>

NV_GetValue ==
    /\ prog = "NoteValue" /\ pc = "made" /\ loc.got = None
    /\ loc' = [loc EXCEPT !.got = Some(NoteValue_get_value(loc.note))]
    /\ UNCHANGED <<prog, circuit, cs, pc, result>>

NV_Next ==
    \/ NV_New
    \/ NV_Lc
    \/ NV_BitsLe
    \/ NV_GetValue

NV_Init ==
    /\ prog = "NoteValue"
    /\ circuit \in {[value |-> v] : v \in {None} \cup {Some(x) : x \in 0..(Pow2(ValueBits) - 1)}}
    /\ cs \in {NewCS(m) : m \in Modes}
    /\ pc = "new"
    /\ loc = NV_Locals
    /\ result = Running

SpecNV == NV_Init /\ [][NV_Next]_vars

----------------------------------------------------------------------------
(* All entry points *)

\* the two circuits
SpecCircuits == (MP_Init \/ JS_Init) /\ [][MP_Next \/ JS_Next]_vars

Init == MP_Init \/ JS_Init \/ WB_Init \/ NV_Init

Next == MP_Next \/ JS_Next \/ WB_Next \/ NV_Next

Spec == Init /\ [][Next]_vars

----------------------------------------------------------------------------
(* Claims about MerklePedersen *)

MP_Done == prog = "MerklePedersen" /\ pc = "done"

\* the anchor given is the root of the reference ladder over the leaf and path given
MP_AnchorIsRoot ==
    /\ AllPresent(circuit)
    /\ Unwrap(circuit.anchor) = RefRoot(Unwrap(circuit.leaf), circuit.auth_path)

\* C1: round-trip membership.  For every depth, leaf and auth path, when the
\* anchor is the root of the reference ladder, synthesize on a system that
\* refuses nothing returns Ok and every registered constraint, "enforce
\* correct root" included, is satisfied.
C1_RoundTripSatisfied ==
    (MP_Done /\ cs.mode = "eval" /\ MP_AnchorIsRoot /\ result.why # "Refused")
        => (result = Success /\ IsSatisfied(cs))

\* C2: tamper detection.  A satisfied constraint system after a successful
\* synthesize implies that the anchor is the root recomputed from leaf and path.
C2_SatisfiedImpliesAnchorIsRoot ==
    (MP_Done /\ cs.mode = "eval" /\ result = Success /\ IsSatisfied(cs))
        => MP_AnchorIsRoot

\* C3: public-input contract of the algebraic variant.  At every point of
\* synthesize the only public input besides the constant ONE is the one made
\* by inputize; after a successful synthesize there is exactly one, it holds
\* the anchor, and it is constrained to equal the witness allocated from the
\* anchor field.  Leaf, siblings and side bits are never public.
C3_OnlyAnchorPublic ==
    prog = "MerklePedersen" =>
        /\ Len(cs.inputs) <= 2
        /\ Len(cs.inputs) = 2 =>
              /\ pc = "done"
              /\ cs.inputs[2].name = <<"anchor", "input variable">>
        /\ (pc = "done" /\ result = Success) =>
              /\ Len(cs.inputs) = 2
              /\ cs.mode = "eval" => cs.inputs[2].value = circuit.anchor
              /\ cs.aux[loc.rt.variable.i].name = <<"conditional anchor", "num">>
              /\ cs.mode = "eval" => cs.aux[loc.rt.variable.i].value = circuit.anchor
              /\ cs.constraints[Len(cs.constraints)] =
                    [kind |-> "r1cs", name |-> <<"anchor", "enforce input is correct">>,
                     a |-> <<Term(1, [k |-> "inputs", i |-> 2])>>,
                     b |-> <<Term(1, ONE)>>,
                     c |-> <<Term(1, loc.rt.variable)>>]

\* a successful synthesis of a path of at least one layer whose anchor is not the
\* recomputed root: the public input is the anchor, not the recomputed value
C3_Witness ==
    /\ MP_Done /\ result = Success /\ cs.mode = "eval"
    /\ Len(circuit.auth_path) >= 1
    /\ loc.cur.value # circuit.anchor
    /\ cs.inputs[2].value = circuit.anchor

----------------------------------------------------------------------------
(* Claims about JoinSplit *)

JS_Done == prog = "JoinSplit" /\ pc = "done"

\* the values of a vector of bit witnesses in the constraint system
BitValues(c, bits) == [j \in 1..Len(bits) |-> ValueOf(c, bits[j].variable) = 1]

\* multipack::compute_multipacking(bytes_to_bits(rt)): the field elements a
\* verifier derives from the 32 bytes of rt
JS_ExpectedInputs(rt) ==
    LET ch == Chunks(BytesToBits(rt), FrCapacity)
    IN  [k \in 1..Len(ch) |-> Some(BitsToNat(ch[k]) % FrModulus)]

\* C4: in the bit-hash variant the public inputs are the packing of the bits of
\* rt alone, whatever leaf and auth path are, and the recomputed root is not
\* constrained against rt: with all values present the constraint system of a
\* successful synthesize is satisfied whether or not rt is the recomputed root.
C4_PublicInputsAreRtOnly ==
    /\ (JS_Done /\ result = Success) =>
          /\ Len(cs.inputs) = 1 + NumPackedInputs(U256Bits)
          /\ cs.mode = "eval" =>
                /\ [k \in 1..NumPackedInputs(U256Bits) |-> cs.inputs[k + 1].value]
                      = JS_ExpectedInputs(Unwrap(circuit.rt))
                /\ IsSatisfied(cs)
    /\ (JS_Done /\ Len(circuit.inputs) = 1 /\ IsSome(circuit.rt) /\ PathPresent(circuit.inputs[1])
           /\ result.why # "Refused") => result = Success

\* a satisfied system whose rt differs from the root recomputed over one layer or more
C4_Witness ==
    /\ JS_Done /\ result = Success /\ cs.mode = "eval"
    /\ Len(circuit.inputs[1].auth_path) >= 1
    /\ BitValues(cs, loc.cur) # BytesToBits(Unwrap(circuit.rt))
    /\ IsSatisfied(cs)

\* the constraint system as new: nothing allocated, enforced or made public
CS_Untouched == cs.aux = <<>> /\ cs.constraints = <<>> /\ Len(cs.inputs) = 1

\* C5: input-count contract.  With inputs.len() # 1 synthesize panics on the
\* assertion, and nothing has been allocated, enforced or made public; with
\* exactly one input the assertion never fails.
C5_InputCountContract ==
    prog = "JoinSplit" =>
        /\ (Len(circuit.inputs) # 1 /\ pc # "assert") =>
              /\ pc = "done"
              /\ result = [status |-> "panic", why |-> AssertFailed]
              /\ CS_Untouched
        /\ Len(circuit.inputs) = 1 => result.why # AssertFailed
        /\ (Len(circuit.inputs) = 1 /\ pc # "assert" /\ pc # "done") => result = Running

\* the panic of a JoinSplit with two inputs
C5_Witness ==
    /\ JS_Done /\ Len(circuit.inputs) = 2
    /\ result.status = "panic" /\ CS_Untouched

----------------------------------------------------------------------------
(* Claims about both walkers *)

IsPedersen(con) == con.kind = "pedersen"
IsSha(con) == con.kind = "sha256"

\* the hash gadget invocations registered so far, in order: one per layer
PedersenCalls == SelectSeq(cs.constraints, IsPedersen)
ShaCalls == SelectSeq(cs.constraints, IsSha)

VarValues(c, vs) == [j \in 1..Len(vs) |-> ValueOf(c, vs[j]) = 1]

\* the preimage (first, second) of a layer whose running value is cur
Ordered(is_right, cur, sibling) == IF is_right THEN sibling \o cur ELSE cur \o sibling

\* C6 for MerklePedersen: the bits hashed at layer t are bits(xl) then bits(xr),
\* (xl, xr) = (sibling, cur) when the witnessed side bit is set, else (cur, sibling),
\* cur being the output of layer t-1 (the leaf at layer 0)
C6_MP_Layer(t) ==
    LET e == Unwrap(circuit.auth_path[t + 1])
        cur == IF t = 0 THEN Unwrap(circuit.leaf) ELSE ValueOf(cs, PedersenCalls[t].out)
        bit == ValueOf(cs, loc.position_bits[t + 1].variable) = 1
    IN  /\ bit = e.is_right
        /\ PedersenCalls[t + 1].tag = t
        /\ VarValues(cs, PedersenCalls[t + 1].bits)
              = Ordered(bit, BitsLE(cur, FrNumBits), BitsLE(e.sibling, FrNumBits))

\* C6 for JoinSplit: the block hashed at layer t is lhs then rhs after the swap
C6_JS_Layer(t) ==
    LET e == Unwrap(circuit.inputs[1].auth_path[t + 1])
        cur == IF t = 0 THEN BytesToBits(Unwrap(circuit.inputs[1].leaf))
               ELSE VarValues(cs, ShaCalls[t].out)
    IN  VarValues(cs, ShaCalls[t + 1].bits) = Ordered(e.is_right, cur, BytesToBits(e.sibling))

\* C6: conditional-swap correctness.  At every layer of both walkers and for
\* both values of the side bit, the preimage handed to the hash gadget is
\* (sibling, cur) when cur_is_right is true and (cur, sibling) when false.
C6_SwapOrdersPreimage ==
    cs.mode = "eval" =>
        /\ prog = "MerklePedersen" =>
              \A t \in 0..(Len(PedersenCalls) - 1) : C6_MP_Layer(t)
        /\ prog = "JoinSplit" =>
              \A t \in 0..(Len(ShaCalls) - 1) : C6_JS_Layer(t)

\* two layers hashed, the first with the side bit set and the second with it clear
C6_Witness ==
    /\ prog = "MerklePedersen" /\ cs.mode = "eval"
    /\ Len(PedersenCalls) = 2
    /\ Unwrap(circuit.auth_path[1]).is_right
    /\ ~Unwrap(circuit.auth_path[2]).is_right
    /\ Unwrap(circuit.auth_path[1]).sibling # Unwrap(circuit.leaf)

\* C7: failure propagation.  In both circuits a refused allocation or an absent
\* witness value ends synthesize with an error value (Err), at every allocation
\* site.
C7_FailureIsErr ==
    (pc = "done" /\ result.why \in {"Refused", "AssignmentMissing"})
        => result.status = "Err"

TREE_DEPTH == 32

SPROUT_TREE_DEPTH == 29

\* the auth path a finished synthesis was given, and the depth its caller configured
PathGiven == IF prog = "MerklePedersen" THEN circuit.auth_path ELSE circuit.inputs[1].auth_path
DepthConfigured == IF prog = "MerklePedersen" THEN TREE_DEPTH ELSE SPROUT_TREE_DEPTH

Walked == prog = "MerklePedersen" \/ (prog = "JoinSplit" /\ Len(circuit.inputs) = 1)

----------------------------------------------------------------------------
(* Claims about witness_bits and NoteValue *)

WB_Done == prog = "witness_bits" /\ pc = "done"

\* the number of bits a concrete value has after skipping
WB_BitsAfterSkip ==
    LET n == 8 * Len(Unwrap(circuit.value))
    IN  IF n > circuit.skip_bits THEN n - circuit.skip_bits ELSE 0

\* C8: witnessing precondition.  A concrete value whose bit count after
\* skipping differs from num_bits makes witness_bits panic with no witness
\* allocated (no truncation, no padding).  With equal counts, or no value, the
\* assertion does not fail: the call fails only on a refused allocation or a
\* value absent from an evaluating system, and otherwise returns exactly
\* num_bits witnesses, all allocated by it.
C8_WitnessPrecondition ==
    WB_Done =>
        IF IsSome(circuit.value) /\ WB_BitsAfterSkip # circuit.num_bits
        THEN result = [status |-> "panic", why |-> AssertFailed] /\ CS_Untouched
        ELSE /\ result.status \in {"Ok", "Err"}
             /\ result.status = "Err" =>
                   \/ result.why = "Refused" /\ circuit.num_bits > 0
                   \/ /\ result.why = "AssignmentMissing"
                      /\ ~IsSome(circuit.value) /\ cs.mode = "eval" /\ circuit.num_bits > 0
             /\ result.status = "Ok" =>
                   /\ Len(loc.bits) = circuit.num_bits
                   /\ Len(cs.aux) = circuit.num_bits
                   /\ \A j \in 1..circuit.num_bits : loc.bits[j].variable = [k |-> "aux", i |-> j]

\* a value one bit too long for num_bits: the panic, nothing allocated
C8_Witness ==
    /\ WB_Done /\ IsSome(circuit.value)
    /\ circuit.num_bits > 0
    /\ WB_BitsAfterSkip = circuit.num_bits + 1
    /\ result.status = "panic" /\ CS_Untouched

\* C9: bit-decomposition round trip.  NoteValue::new(Some(v)) allocates exactly
\* ValueBits boolean witnesses "bit 0", "bit 1", .. in that order, bit i being
\* (v >> i) & 1; lc() weights bit i by 2^i and evaluates to v on that
\* assignment; get_value returns v.
C9_DecompositionRoundTrip ==
    (prog = "NoteValue" /\ pc = "made" /\ IsSome(circuit.value)) =>
        LET v == Unwrap(circuit.value)
            note == loc.note
        IN  /\ Len(note.bits) = ValueBits
            /\ Len(cs.aux) = ValueBits
            /\ \A i \in 0..(ValueBits - 1) :
                  /\ note.bits[i + 1].variable = [k |-> "aux", i |-> i + 1]
                  /\ cs.aux[i + 1].name = <<"bit", ToString(i), "boolean">>
                  /\ note.bits[i + 1].value = Some((v \div Pow2(i)) % 2 = 1)
                  /\ cs.mode = "eval" => ValueOf(cs, note.bits[i + 1].variable) = (v \div Pow2(i)) % 2
            /\ IsSome(loc.lc) =>
                  /\ Unwrap(loc.lc) = [j \in 1..ValueBits |->
                                          [c |-> Pow2(j - 1) % FrModulus, v |-> [k |-> "aux", i |-> j]]]
                  /\ cs.mode = "eval" => EvalLC(cs, Unwrap(loc.lc)) = v
            /\ IsSome(loc.got) => Unwrap(loc.got) = Some(v)

\* the value with only its top bit set, decomposed, recombined and read back
C9_Witness ==
    /\ prog = "NoteValue" /\ pc = "made" /\ cs.mode = "eval"
    /\ circuit.value = Some(Pow2(ValueBits - 1))
    /\ IsSome(loc.lc) /\ IsSome(loc.got)
    /\ EvalLC(cs, Unwrap(loc.lc)) = Pow2(ValueBits - 1)

----------------------------------------------------------------------------
(* Claims about the order of the ladder *)

\* the witnesses and the constraints registered under a name
AuxNamed(name) == {j \in 1..Len(cs.aux) : cs.aux[j].name = name}
ConstraintsNamed(name) == {j \in 1..Len(cs.constraints) : cs.constraints[j].name = name}

TheOne(S) == CHOOSE x \in S : TRUE

Aux(j) == [k |-> "aux", i |-> j]

\* the witness that is cur when layer t starts: the leaf, or the output of layer t-1
C11_CurBefore(t) ==
    IF t = 0 THEN Aux(TheOne(AuxNamed(<<"leaf", "num">>))) ELSE PedersenCalls[t].out

\* layer t, once hashed: its one side bit, its one path element, its one hash
\* invocation tagged t over bits(xl) then bits(xr), allocated in that order
\* after cur, and the reversal taking cur, the path element and the side bit
C11_Layer(t) ==
    LET ns == MP_Ns(t)
        pb == AuxNamed(ns \o <<"position bit", "boolean">>)
        pe == AuxNamed(ns \o <<"path element", "num">>)
        hx == AuxNamed(ns \o <<"computation of pedersen hash", "x", "num">>)
        rev == ConstraintsNamed(ns \o <<"conditional reversal of preimage",
                                        "first conditional reversal">>)
        xl == ConstraintsNamed(ns \o <<"xl into bits", "unpacking constraint">>)
        xr == ConstraintsNamed(ns \o <<"xr into bits", "unpacking constraint">>)
        call == PedersenCalls[t + 1]
        cur == C11_CurBefore(t)
        e == circuit.auth_path[t + 1]
    IN  /\ Cardinality(pb) = 1 /\ Cardinality(pe) = 1 /\ Cardinality(hx) = 1
        /\ Cardinality(rev) = 1 /\ Cardinality(xl) = 1 /\ Cardinality(xr) = 1
        /\ cur.i < TheOne(pb) /\ TheOne(pb) < TheOne(pe) /\ TheOne(pe) < TheOne(hx)
        /\ loc.position_bits[t + 1].variable = Aux(TheOne(pb))
        /\ loc.position_bits[t + 1].value = EntryBit(e)
        /\ cs.constraints[TheOne(rev)].a = <<Term(1, cur), Term(0 - 1, Aux(TheOne(pe)))>>
        /\ cs.constraints[TheOne(rev)].b = <<Term(1, Aux(TheOne(pb)))>>
        /\ call.tag = t
        /\ call.name = ns \o <<"computation of pedersen hash">>
        /\ call.out = Aux(TheOne(hx))
        /\ Len(call.bits) = 2 * FrNumBits
        /\ \A j \in 1..FrNumBits :
              /\ cs.constraints[TheOne(xl)].c[j].v = call.bits[j]
              /\ cs.constraints[TheOne(xr)].c[j].v = call.bits[FrNumBits + j]
        /\ cs.aux[cs.constraints[TheOne(xl)].c[FrNumBits + 1].v.i].name =
              ns \o <<"conditional reversal of preimage", "conditional reversal result 1", "num">>
        /\ cs.aux[cs.constraints[TheOne(xr)].c[FrNumBits + 1].v.i].name =
              ns \o <<"conditional reversal of preimage", "conditional reversal result 2", "num">>
        /\ cs.mode = "eval" =>
              /\ cs.aux[TheOne(pb)].value = Some(IF Unwrap(e).is_right THEN 1 ELSE 0)
              /\ cs.aux[TheOne(pe)].value = Some(Unwrap(e).sibling)
              /\ ValueOf(cs, call.out) =
                    RefRoot(Unwrap(circuit.leaf), SubSeq(circuit.auth_path, 1, t + 1))

\* C11: ladder order and per-layer personalization in MerklePedersen.  Layers
\* are built in ascending auth-path index; layer i has exactly one side-bit
\* witness and one path-element witness and one hash invocation, tagged
\* MerkleTree(i), over the layer's swapped preimage; its output is the cur of
\* layer i+1 and the last output is the value constrained against the anchor;
\* position bit i is the side bit of layer i.
C11_LadderOrder ==
    prog = "MerklePedersen" =>
        /\ Len(PedersenCalls) <= Len(circuit.auth_path)
        /\ Len(loc.position_bits) \in {Len(PedersenCalls), Len(PedersenCalls) + 1}
        /\ \A t \in 0..(Len(PedersenCalls) - 1) : C11_Layer(t)
        /\ \A t \in 0..Len(circuit.auth_path) :
              /\ Cardinality(AuxNamed(MP_Ns(t) \o <<"position bit", "boolean">>)) <= 1
              /\ Cardinality(AuxNamed(MP_Ns(t) \o <<"path element", "num">>)) <= 1
              /\ t >= Len(circuit.auth_path) =>
                    AuxNamed(MP_Ns(t) \o <<"position bit", "boolean">>) = {}
        /\ \A k \in ConstraintsNamed(<<"enforce correct root">>) :
              /\ Len(PedersenCalls) = Len(circuit.auth_path)
              /\ cs.constraints[k].a = <<Term(1, C11_CurBefore(Len(circuit.auth_path)))>>
              /\ cs.constraints[k].b = <<Term(1, loc.rt.variable)>>

\* a finished two-layer ladder: tags 0 then 1, the second layer fed by the first
C11_Witness ==
    /\ MP_Done /\ result = Success /\ cs.mode = "eval"
    /\ Len(circuit.auth_path) = 2
    /\ PedersenCalls[1].tag = 0 /\ PedersenCalls[2].tag = 1
    /\ Unwrap(circuit.auth_path[1]).is_right # Unwrap(circuit.auth_path[2]).is_right
    /\ loc.cur.variable = PedersenCalls[2].out
    /\ PedersenCalls[1].out.i < loc.position_bits[2].variable.i

----------------------------------------------------------------------------
(* Claims about the bit order of witness_bits *)

\* bit number n of a byte string read from the most significant bit of its
\* first byte onward: bit 7 - (n mod 8) of byte n div 8
C12_BitOf(value, n) ==
    LET byte == value[(n \div 8) + 1]
        b == 7 - (n % 8)
    IN  (byte \div Pow2(b)) % 2 = 1

\* the witnesses returned are num_bits witnesses "bit 0", "bit 1", .. of which
\* witness k carries bit skip_bits + k of value, or no value when value is absent
C12_Carries(value, num_bits, skip_bits) ==
    /\ Len(loc.bits) = num_bits
    /\ \A k \in 0..(num_bits - 1) :
          /\ loc.bits[k + 1].variable = Aux(k + 1)
          /\ cs.aux[k + 1].name = <<"bit", ToString(k), "boolean">>
          /\ IF IsSome(value)
             THEN /\ loc.bits[k + 1].value = Some(C12_BitOf(Unwrap(value), skip_bits + k))
                  /\ cs.mode = "eval" =>
                        cs.aux[k + 1].value =
                            Some(IF C12_BitOf(Unwrap(value), skip_bits + k) THEN 1 ELSE 0)
             ELSE /\ loc.bits[k + 1].value = None
                  /\ cs.aux[k + 1].value = None

\* num_bits of the call made
C12_NumBits ==
    IF prog = "witness_bits" THEN circuit.num_bits
    ELSE IF prog = "witness_u256" THEN U256Bits ELSE U256Bits - 4

\* C12: bit order of witness_bits.  For a byte sequence of matching length
\* witness k carries bit skip_bits + k of the input read most significant bit
\* first from the first byte; witness_u256 is the case (U256Bits, 0) and
\* witness_u252 the case (U256Bits - 4, 4); with the byte sequence absent the
\* witnesses returned are num_bits witnesses of unknown value, returned by
\* every call on a system that does not evaluate values (one that does
\* answers the first allocation with AssignmentMissing).
C12_BitOrder ==
    /\ (pc = "done" /\ result = Success) =>
          /\ prog = "witness_bits" =>
                C12_Carries(circuit.value, circuit.num_bits, circuit.skip_bits)
          /\ prog = "witness_u256" => C12_Carries(circuit.value, U256Bits, 0)
          /\ prog = "witness_u252" => C12_Carries(circuit.value, U256Bits - 4, 4)
    /\ (prog \in {"witness_bits", "witness_u256", "witness_u252"} /\ pc = "done"
           /\ ~IsSome(circuit.value) /\ result.why # "Refused") =>
          IF cs.mode = "eval" /\ C12_NumBits > 0
          THEN result = Failure("AssignmentMissing")
          ELSE result = Success

\* two bytes with four bits skipped: witness 3 is bit 0 of the first byte and
\* witness 4 is bit 7 of the second, and the two differ
C12_Witness ==
    /\ WB_Done /\ result = Success /\ cs.mode = "eval"
    /\ IsSome(circuit.value) /\ Len(Unwrap(circuit.value)) = 2
    /\ circuit.skip_bits = 4 /\ circuit.num_bits = 12
    /\ cs.aux[4].value = Some(Unwrap(circuit.value)[1] % 2)
    /\ cs.aux[5].value = Some(Unwrap(circuit.value)[2] \div 128)
    /\ cs.aux[4].value # cs.aux[5].value

\* witness_u252 of a concrete value: its first witness is bit 3 of the first byte
C12_WitnessU252 ==
    /\ prog = "witness_u252" /\ pc = "done" /\ result = Success /\ cs.mode = "eval"
    /\ IsSome(circuit.value)
    /\ cs.aux[1].value = Some((Unwrap(circuit.value)[1] \div 8) % 2)

----------------------------------------------------------------------------
(* Claims about the shape of the constraint system.  synthesize as a       *)
(* function: the statements of MP_Next and of JS_Next composed in program  *)
(* order on a system that refuses no allocation, for a run that meets no   *)
(* error.                                                                  *)

\* merkle.rs 53-96: the layers from i on, cur being the running value
RECURSIVE MP_RunLayers(_, _, _, _)
MP_RunLayers(c, path, i, cur) ==
    IF i >= Len(path) THEN [cs |-> c, cur |-> cur]
    ELSE LET e == path[i + 1]
             bit == AllocatedBit_alloc(c, MP_Ns(i) \o <<"position bit">>, EntryBit(e))
             pe == AllocatedNum_alloc(bit.cs, MP_Ns(i) \o <<"path element">>, EntrySibling(e))
             ab == MP_ReversalOperands([cur |-> cur, path_element |-> pe.out,
                                        cur_is_right |-> bit.out])
             rev == AllocatedNum_conditionally_reverse(
                        pe.cs, MP_Ns(i) \o <<"conditional reversal of preimage">>,
                        ab[1], ab[2], bit.out)
             xl == AllocatedNum_to_bits_le(rev.cs, MP_Ns(i) \o <<"xl into bits">>, rev.out[1])
             xr == AllocatedNum_to_bits_le(xl.cs, MP_Ns(i) \o <<"xr into bits">>, rev.out[2])
             h == pedersen_hash(xr.cs, MP_Ns(i) \o <<"computation of pedersen hash">>,
                                MP_Personalization(i), xl.out \o xr.out)
         IN  MP_RunLayers(h.cs, path, i + 1, h.out)

\* merkle.rs 39-121: the constraint system synthesize leaves
MP_Run(circ, mode) ==
    LET cm == AllocatedNum_alloc(NewCS(mode), <<"leaf">>, circ.leaf)
        w == MP_RunLayers(cm.cs, circ.auth_path, 0, cm.out)
        rt == AllocatedNum_alloc(w.cs, <<"conditional anchor">>, circ.anchor)
        k == MP_RootConstraint(w.cur, rt.out)
        c1 == CS_enforce(rt.cs, <<"enforce correct root">>, k.a, k.b, k.c)
    IN  AllocatedNum_inputize(c1, <<"anchor">>, MP_Exposed([rt |-> rt.out, cur |-> w.cur])).cs

\* mod.rs 129-152: the layers of the one input from i on
RECURSIVE JS_RunLayers(_, _, _, _)
JS_RunLayers(c, path, i, cur) ==
    IF i >= Len(path) THEN [cs |-> c, cur |-> cur]
    ELSE LET layer == path[i + 1]
             bit == AllocatedBit_alloc(c, JS_Ns(0, i) \o <<"cur is right">>, EntryBit(layer))
             rhs == witness_u256(bit.cs, JS_Ns(0, i) \o <<"sibling">>, EntrySibling(layer))
             pre == conditionally_swap_u256(rhs.cs, JS_Ns(0, i) \o <<"conditional swap">>,
                                            cur, rhs.out, bit.out)
             h == sha256_block_no_padding(pre.cs, JS_Ns(0, i) \o <<"hash of this layer">>,
                                          pre.out)
         IN  JS_RunLayers(h.cs, path, i + 1, h.out)

\* mod.rs 113-172 with one input: the constraint system synthesize leaves
JS_Run(circ, mode) ==
    LET rt == witness_u256(NewCS(mode), <<"rt">>, circ.rt)
        leaf == witness_u256(rt.cs, <<"input", "0", "leaf">>, circ.inputs[1].leaf)
        w == JS_RunLayers(leaf.cs, circ.inputs[1].auth_path, 0, leaf.out)
    IN  pack_into_inputs(w.cs, <<"input packing">>,
                         JS_PublicBits([rt |-> rt.out, cur |-> w.cur])).cs

\* the circuits of key generation: every optional field absent
MP_Blind(depth) == [leaf |-> None, auth_path |-> [j \in 1..depth |-> None], anchor |-> None]
JS_Blind(depth) ==
    [inputs |-> <<[leaf |-> None, auth_path |-> [j \in 1..depth |-> None]]>>, rt |-> None]

\* the circuits as their callers build them: for key generation every field
\* absent, for proving every field present
MP_Built == {c \in MP_Circuits : AllPresent(c) \/ c = MP_Blind(Len(c.auth_path))}

JS_Built ==
    {c \in JS_Circuits :
        /\ Len(c.inputs) = 1
        /\ \/ c = JS_Blind(Len(c.inputs[1].auth_path))
           \/ IsSome(c.rt) /\ PathPresent(c.inputs[1])}

Built_Init ==
    /\ \/ prog = "MerklePedersen" /\ circuit \in MP_Built /\ pc = "leaf" /\ loc = MP_Locals
       \/ prog = "JoinSplit" /\ circuit \in JS_Built /\ pc = "assert" /\ loc = JS_Locals
    /\ cs \in {NewCS(m) : m \in Modes}
    /\ result = Running

\* the two circuits, synthesized for key generation and for proving
SpecBuilt == Built_Init /\ [][MP_Next \/ JS_Next]_vars

Names(ws) == [j \in 1..Len(ws) |-> ws[j].name]

\* what a constraint system is apart from the values assigned: the witnesses
\* and the public inputs in order of allocation, the constraints in order of
\* registration with their linear combinations
Shape(c) == [aux |-> Names(c.aux), inputs |-> Names(c.inputs), constraints |-> c.constraints]

IsPrefix(a, b) == Len(a) <= Len(b) /\ a = SubSeq(b, 1, Len(a))

ShapeWithin(a, b) ==
    /\ IsPrefix(a.aux, b.aux)
    /\ IsPrefix(a.inputs, b.inputs)
    /\ IsPrefix(a.constraints, b.constraints)

\* the shape the blind synthesis of each depth builds
MP_BlindShapes == [d \in 0..MaxDepth |-> Shape(MP_Run(MP_Blind(d), "shape"))]
JS_BlindShapes == [d \in 0..MaxDepth |-> Shape(JS_Run(JS_Blind(d), "shape"))]

\* the shape a blind synthesis of the depth at hand builds
C13_BlindShape ==
    IF prog = "MerklePedersen"
    THEN MP_BlindShapes[Len(circuit.auth_path)]
    ELSE JS_BlindShapes[Len(circuit.inputs[1].auth_path)]

\* C13: the constraint shape is independent of the witness values.  For a
\* fixed auth-path length, whatever the optional fields hold and whether the
\* system evaluates them or not, what synthesize has allocated, enforced and
\* made public so far is the beginning of what the blind synthesis of that
\* length builds, and the whole of it when synthesize returns Ok; and the
\* constraint system of a successful synthesize is a function of the circuit
\* and the system it was given.
C13_ShapeIndependent ==
    Walked =>
        LET built == Shape(cs)
            blind == C13_BlindShape
        IN  /\ ShapeWithin(built, blind)
            /\ (pc = "done" /\ result = Success) =>
                  /\ built = blind
                  /\ cs = IF prog = "MerklePedersen" THEN MP_Run(circuit, cs.mode)
                                                    ELSE JS_Run(circuit, cs.mode)

\* a finished two-layer synthesis with every value present and the two side
\* bits different: the shape of the blind synthesis, with values assigned
C13_Witness ==
    /\ MP_Done /\ result = Success /\ cs.mode = "eval"
    /\ Len(circuit.auth_path) = 2 /\ AllPresent(circuit)
    /\ Unwrap(circuit.auth_path[1]).is_right /\ ~Unwrap(circuit.auth_path[2]).is_right
    /\ Shape(cs) = C13_BlindShape
    /\ cs # MP_Run(MP_Blind(Len(circuit.auth_path)), "shape")
    /\ \A j \in 1..Len(cs.aux) : IsSome(cs.aux[j].value)

\* the same for a JoinSplit of one input and one layer
C13_WitnessJS ==
    /\ JS_Done /\ result = Success /\ cs.mode = "eval"
    /\ Len(circuit.inputs) = 1 /\ Len(circuit.inputs[1].auth_path) >= 1
    /\ Shape(cs) = C13_BlindShape
    /\ \A j \in 1..Len(cs.aux) : IsSome(cs.aux[j].value)

====
